---- MODULE Spec2Model ----
(***************************************************************************)
(* PyEncrypt: the Encryption pipeline (encryption.py), its cipher          *)
(* subclasses (caesar.py, vigenere.py, transposition.py, rsa.py,           *)
(* compound.py) and the processing functions (process_funcs.py, utils.py). *)
(*                                                                         *)
(* Python values are tagged records [t, v]: a str is a sequence of code    *)
(* points, a list a sequence of values.  A call's outcome is a record      *)
(* [exc, val]: exc = "" on a normal return, else the exception's class.    *)
(* Objects live in `heap`; a reference is an index into it, 0 is None.     *)
(***************************************************************************)
EXTENDS Integers, Sequences, FiniteSets, TLC

VARIABLES heap, made, cipher, message, sent, call

vars == <<heap, made, cipher, message, sent, call>>

(* ------------------------------ bounds -------------------------------- *)

\* the longest text given to a cipher
MaxLen == 2

\* the most objects the caller holds: a cipher and the decryption objects
\* derived from it in a chain
MaxHeap == 2

\* the most invocations of one object's _make_decryption_object
MaxMade == 2

\* the largest p and q given to the RSA constructor
MaxP == 5

\* the largest modulus given to calculate_p_and_q, rsa.py's demo apart
MaxModulus == 40

(* --------------------------- Python values ---------------------------- *)

PyStr(s) == [t |-> "str", v |-> s]

PyInt(n) == [t |-> "int", v |-> n]

PyList(l) == [t |-> "list", v |-> l]

PyNone == [t |-> "None", v |-> 0]

Ok(v) == [exc |-> "", val |-> v]

Raise(e) == [exc |-> e, val |-> PyNone]

\* the rest of a computation after a call: an exception ends it
Bind(r, F(_)) == IF r.exc # "" THEN r ELSE F(r.val)

\* [F(x) for x in seq]: the first exception raised ends the comprehension
MapR(F(_), seq) ==
    LET rs == [i \in DOMAIN seq |-> F(seq[i])]
        bad == {i \in DOMAIN seq : rs[i].exc # ""}
    IN  IF bad # {}
        THEN rs[CHOOSE i \in bad : \A j \in bad : i <= j]
        ELSE Ok([i \in DOMAIN seq |-> rs[i].val])

RECURSIVE Concat(_)
Concat(ss) == IF ss = <<>> THEN <<>> ELSE Head(ss) \o Concat(Tail(ss))

\* "".join(parts): parts is a sequence of str values
join(parts) ==
    IF \E i \in DOMAIN parts : parts[i].t # "str"
    THEN Raise("TypeError")
    ELSE Ok(PyStr(Concat([i \in DOMAIN parts |-> parts[i].v])))

\* chr(i)
chr(i) == IF i < 0 \/ i > 1114111 THEN Raise("ValueError") ELSE Ok(PyStr(<<i>>))

\* ord(c)
ord(c) ==
    IF c.t # "str" \/ Len(c.v) # 1 THEN Raise("TypeError") ELSE Ok(PyInt(c.v[1]))

\* str.lower() on ASCII text
lower(s) == [i \in DOMAIN s |-> IF s[i] >= 65 /\ s[i] <= 90 THEN s[i] + 32 ELSE s[i]]

\* list(s) of a str: its characters
list(s) == Ok(PyList([i \in DOMAIN s.v |-> PyStr(<<s.v[i]>>)]))

(* ------------------------------ utils.py ------------------------------ *)

listify(func(_), lst) ==
    IF lst.t = "list"
    THEN Bind(MapR(func, lst.v), LAMBDA l : Ok(PyList(l)))
    ELSE func(lst)

(* --------------------- caesar.py module functions --------------------- *)

caesar_to_lower_case(s) == Ok(PyStr(lower(s.v)))

caesar_numeric_representation(c) == Bind(ord(c), LAMBDA o : Ok(PyInt(o.v - 97)))

caesar_character_representation(c) == chr(c.v + 97)

(* --------------------------- process_funcs.py ------------------------- *)

to_lower_case(s) == listify(LAMBDA x : Ok(PyStr(lower(x.v))), s)

numeric_representation(c) ==
    listify(LAMBDA x : Bind(ord(x), LAMBDA o : Ok(PyInt(o.v - 97))), c)

character_representation(c) == listify(LAMBDA x : chr(x.v + 97), c)

(* ---------------------------- encryption.py --------------------------- *)

\* Encryption.__init__
Encryption(preprocess_raw_string, preprocess, postprocess, group_by) ==
    [preprocess_raw_string |-> preprocess_raw_string,
     preprocess |-> preprocess,
     postprocess |-> postprocess,
     group_by |-> group_by,
     decryption_object |-> 0,
     is_decryption_object |-> FALSE]

(* ------------------------------ caesar.py ----------------------------- *)

\* CaesarCipher.__init__
CaesarCipher(shift) ==
    Ok([cls |-> "CaesarCipher", shift |-> shift]
       @@ Encryption(<<"caesar.to_lower_case">>,
                     <<"caesar.numeric_representation">>,
                     <<"caesar.character_representation">>, 1))

\* CaesarCipher._encrypt_group
CaesarCipher_encrypt_group(o, c) ==
    IF c.v = -65 THEN Ok(PyInt(-65)) ELSE Ok(PyInt((c.v + o.shift) % 26))

(* ----------------------------- vigenere.py ---------------------------- *)

\* VigenereCipher.__init__: key is a str
VigenereCipher(key) ==
    Bind(Bind(list(key), LAMBDA l : numeric_representation(l)),
         LAMBDA k : Ok([cls |-> "VigenereCipher", key |-> k]
                       @@ Encryption(<<"to_lower_case">>,
                                     <<"list", "numeric_representation">>,
                                     <<"character_representation", "join">>, -1)))

\* VigenereCipher._encrypt_group: l is a list of int
VigenereCipher_encrypt_group(o, l) ==
    LET key == o.key.v
        F(i) == IF l.v[i].v = -65 THEN Ok(PyInt(-65))
                ELSE IF Len(key) = 0 THEN Raise("ZeroDivisionError")
                ELSE Ok(PyInt((l.v[i].v + key[((i - 1) % Len(key)) + 1].v) % 26))
    IN  Bind(MapR(F, [i \in DOMAIN l.v |-> i]), LAMBDA r : Ok(PyList(r)))

\* a decryption cipher whose key digits are 25 - key[i]
VigenereCipher_make_decryption_object_off_by_one(o) ==
    Bind(Bind(character_representation(
                  PyList([i \in DOMAIN o.key.v |-> PyInt(25 - o.key.v[i].v)])),
              LAMBDA c : join(c.v)),
         LAMBDA n_key : VigenereCipher(n_key))

\* VigenereCipher._make_decryption_object: the constructor call it makes
VigenereCipher_make_decryption_object(o) ==
    Bind(Bind(character_representation(
                  PyList([i \in DOMAIN o.key.v |-> PyInt(26 - o.key.v[i].v)])),
              LAMBDA c : join(c.v)),
         LAMBDA n_key : VigenereCipher(n_key))

(* --------------------------- transposition.py ------------------------- *)

\* TranspositionCipher.__init__: sigma is a list of int, or a function
\* (t = "function"); type(sigma) == Callable[[int], int] is never true, so a
\* function reaches len(sigma)
TranspositionCipher(sigma, n) ==
    IF sigma.t # "list" THEN Raise("TypeError")
    ELSE LET m == IF n = -1 THEN Len(sigma.v) ELSE n
         IN  IF m # Len(sigma.v) THEN Raise("Exception")
             ELSE Ok([cls |-> "TranspositionCipher", sigma |-> sigma.v]
                     @@ Encryption(<<"pad">>, <<>>, <<>>, m))

\* a pad that fills up to the next multiple of n beyond the length: a whole
\* block of fillers when the length is a multiple of n already
pad_full_block(n, s) ==
    IF n = 0 THEN Raise("ZeroDivisionError")
    ELSE Ok(PyStr(s.v \o [i \in 1..(n - (Len(s.v) % n)) |-> 63]))

\* pad, the closure of TranspositionCipher.__init__ over n
pad(n, s) ==
    IF n = 0 THEN Raise("ZeroDivisionError")
    ELSE Ok(PyStr(s.v \o [i \in 1..(n - ((Len(s.v) - 1) % n) - 1) |-> 63]))

\* TranspositionCipher._encrypt_group: s[sigma[i]] = group[i], i ascending
TranspositionCipher_encrypt_group(o, group) ==
    LET n == o.group_by
        sigma == o.sigma
        at(i) == IF sigma[i] < 0 THEN sigma[i] + n ELSE sigma[i]
        src(j) == {i \in 1..n : at(i) = j}
        cell(j) == IF src(j) = {} THEN <<>>
                   ELSE <<group.v[CHOOSE i \in src(j) : \A k \in src(j) : k <= i]>>
    IN  IF n > Len(sigma) \/ n > Len(group.v)
           \/ \E i \in 1..n : at(i) < 0 \/ at(i) >= n
        THEN Raise("IndexError")
        ELSE Ok(PyStr(Concat([j \in 1..n |-> cell(j - 1)])))

\* a decryption cipher that reuses sigma instead of inverting it
TranspositionCipher_make_decryption_object_same_sigma(o) ==
    TranspositionCipher(PyList(o.sigma), o.group_by)

\* TranspositionCipher._make_decryption_object: the constructor call it makes
TranspositionCipher_make_decryption_object(o) ==
    LET n == o.group_by
        index(x) == CHOOSE i \in 1..Len(o.sigma) :
                        o.sigma[i] = x /\ \A k \in 1..(i - 1) : o.sigma[k] # x
    IN  IF \E x \in 0..(n - 1) : \A i \in 1..Len(o.sigma) : o.sigma[i] # x
        THEN Raise("ValueError")
        ELSE TranspositionCipher(PyList([j \in 1..n |-> index(j - 1) - 1]), n)

(* -------------------- process_funcs.py, used by rsa.py ----------------- *)

RECURSIVE digits(_)
digits(n) == IF n < 10 THEN <<48 + n>> ELSE digits(n \div 10) \o <<48 + (n % 10)>>

\* str(c) of an int
str(c) == IF c < 0 THEN <<45>> \o digits(-c) ELSE digits(c)

\* s.zfill(width): zeros go after a leading sign
zfill(s, width) ==
    LET z == [i \in 1..(width - Len(s)) |-> 48]
    IN  IF s # <<>> /\ s[1] \in {43, 45} THEN <<s[1]>> \o z \o Tail(s) ELSE z \o s

RECURSIVE value(_)
value(ds) ==
    IF ds = <<>> THEN 0 ELSE 10 * value(SubSeq(ds, 1, Len(ds) - 1)) + (ds[Len(ds)] - 48)

\* int(s) of a str: decimal digits after an optional sign
int(s) ==
    LET signed == s.v # <<>> /\ s.v[1] \in {43, 45}
        ds == IF signed THEN Tail(s.v) ELSE s.v
    IN  IF s.t # "str" THEN Raise("TypeError")
        ELSE IF ds = <<>> \/ \E i \in DOMAIN ds : ds[i] < 48 \/ ds[i] > 57
        THEN Raise("ValueError")
        ELSE Ok(PyInt(IF signed /\ s.v[1] = 45 THEN -value(ds) ELSE value(ds)))

pad_numeric_representation(c) ==
    listify(LAMBDA x : LET s == str(x.v)
                       IN  Ok(PyStr(IF Len(s) % 2 = 1 THEN zfill(s, Len(s) + 1) ELSE s)),
            c)

convert_to_rsa_format(s) ==
    listify(LAMBDA x :
                LET F(i) == Bind(numeric_representation(PyStr(<<x.v[i]>>)),
                                 LAMBDA nr : pad_numeric_representation(nr))
                IN  Bind(MapR(F, [i \in DOMAIN x.v |-> i]), LAMBDA r : join(r)),
            s)

remove_spaces(s) ==
    listify(LAMBDA x : Ok(PyStr(SelectSeq(x.v, LAMBDA ch : ch # 32))), s)

convert_each_2_digits_to_char(s) ==
    listify(LAMBDA x :
                LET F(i) == Bind(int(PyStr(SubSeq(x.v, 2 * i - 1,
                                     IF 2 * i > Len(x.v) THEN Len(x.v) ELSE 2 * i))),
                                 LAMBDA k : character_representation(k))
                IN  Bind(MapR(F, [i \in 1..((Len(x.v) + 1) \div 2) |-> i]),
                         LAMBDA r : join(r)),
            s)

(* -------------------------------- rsa.py ------------------------------ *)

RECURSIVE gcd(_, _)
gcd(a, b) == IF b = 0 THEN a ELSE gcd(b, a % b)

\* the builtin pow(e, -1, phi): the inverse of e modulo phi, with the sign of
\* phi; ValueError when phi is 0 or e is not invertible
pow_inv(e, phi) ==
    LET m == IF phi < 0 THEN -phi ELSE phi
    IN  IF m = 0 \/ gcd(e % m, m) # 1 THEN Raise("ValueError")
        ELSE LET d == CHOOSE x \in 0..(m - 1) : (e * x) % m = 1 % m
             IN  Ok(PyInt(IF phi < 0 /\ d # 0 THEN d - m ELSE d))

\* a calculate_d_slow that answers -1 when it finds no d
calculate_d_slow_minus_one(e, phi) ==
    LET ds == {d \in 0..(phi - 1) : (e * d) % phi = 1}
    IN  IF ds = {} THEN Ok(PyInt(-1))
        ELSE Ok(PyInt(CHOOSE d \in ds : \A x \in ds : d <= x))

\* RSA.calculate_d_slow
calculate_d_slow(e, phi) ==
    LET ds == {d \in 0..(phi - 1) : (e * d) % phi = 1}
    IN  IF ds = {} THEN Ok(PyNone)
        ELSE Ok(PyInt(CHOOSE d \in ds : \A x \in ds : d <= x))

\* RSA.calculate_d: the bare except sends every failure of pow to the slow search
calculate_d(e, phi) ==
    LET r == pow_inv(e, phi) IN IF r.exc = "" THEN r ELSE calculate_d_slow(e, phi)

RECURSIVE group_by_loop(_, _, _)
group_by_loop(s, c, n) == IF s < n THEN group_by_loop(s * 100 + 25, c + 1, n) ELSE c * 2

\* RSA.calculate_group_by
calculate_group_by(n) == group_by_loop(25, 0, n)

RECURSIVE p_and_q_loop(_, _, _)
p_and_q_loop(p, n, e) ==
    IF p >= n THEN Ok(<<-1, -1>>)
    ELSE IF n % p = 0 /\ calculate_d(e, (p - 1) * ((n \div p) - 1)).val # PyInt(-1)
    THEN Ok(<<p, n \div p>>)
    ELSE p_and_q_loop(p + 1, n, e)

\* calculate_p_and_q with its search for a divisor starting at 1
calculate_p_and_q_from_one(n, e) ==
    IF n < 2 THEN Raise("ValueError")
    ELSE IF e < 2 THEN Raise("ValueError")
    ELSE IF e >= n THEN Raise("ValueError")
    ELSE p_and_q_loop(1, n, e)

\* RSA.calculate_p_and_q
calculate_p_and_q(n, e) ==
    IF n < 2 THEN Raise("ValueError")
    ELSE IF e < 2 THEN Raise("ValueError")
    ELSE IF e >= n THEN Raise("ValueError")
    ELSE p_and_q_loop(2, n, e)

\* set_p_and_q without its check of the range of e
set_p_and_q_any_e(n, e, p, q) ==
    IF p # -1 /\ q # -1
    THEN IF n # p * q THEN Raise("ValueError")
         ELSE IF e.t # "int" THEN Raise("TypeError")
         ELSE LET phi == (p - 1) * (q - 1)
              IN  Bind(calculate_d(e.v, phi),
                       LAMBDA d : Ok([p |-> p, q |-> q, phi |-> PyInt(phi),
                                      d |-> d]))
    ELSE Ok([p |-> p, q |-> q, phi |-> PyNone, d |-> PyNone])

\* RSA.set_p_and_q: Ok carries the fields it sets; e is an int or None
set_p_and_q(n, e, p, q) ==
    IF p # -1 /\ q # -1
    THEN IF n # p * q THEN Raise("ValueError")
         ELSE IF e.t # "int" THEN Raise("TypeError")
         ELSE LET phi == (p - 1) * (q - 1)
              IN  Bind(calculate_d(e.v, phi),
                       LAMBDA d : IF e.v < 1 \/ e.v >= phi THEN Raise("ValueError")
                                  ELSE Ok([p |-> p, q |-> q, phi |-> PyInt(phi),
                                           d |-> d]))
    ELSE Ok([p |-> p, q |-> q, phi |-> PyNone, d |-> PyNone])

\* RSA.__init__: e is an int or None
RSA(n, e, p, q, calculate_p_q) ==
    LET pq == IF calculate_p_q /\ p = -1 /\ q = -1
              THEN IF e.t # "int" THEN Raise("TypeError") ELSE calculate_p_and_q(n, e.v)
              ELSE Ok(<<p, q>>)
    IN  Bind(Bind(pq, LAMBDA v : set_p_and_q(n, e, v[1], v[2])),
             LAMBDA f :
                 Ok([cls |-> "RSA", n |-> n, e |-> e] @@ f
                    @@ Encryption(<<"to_lower_case", "remove_spaces",
                                    "convert_to_rsa_format">>,
                                  <<"int">>, <<"pad_numeric_representation">>,
                                  calculate_group_by(n))))

\* RSA.make_RSA_object
make_RSA_object(p, q, e) == RSA(p * q, PyInt(e), p, q, FALSE)

\* b ** e % n for e >= 0, by repeated squaring
RECURSIVE pow_mod(_, _, _)
pow_mod(b, e, n) ==
    IF e = 0 THEN 1 % n
    ELSE IF e % 2 = 0 THEN LET h == pow_mod(b, e \div 2, n) IN (h * h) % n
    ELSE ((b % n) * pow_mod(b, e - 1, n)) % n

\* RSA._encrypt_group
RSA_encrypt_group(o, group) ==
    IF group.t # "int" \/ o.e.t # "int" THEN Raise("TypeError")
    ELSE IF o.n = 0 THEN Raise("ZeroDivisionError")
    ELSE Ok(PyInt(pow_mod(group.v, o.e.v, o.n)))

\* _make_decryption_object without its raise: an object without its primes
\* gets a decryption object made of its own n and e
RSA_make_decryption_object_no_raise(o) ==
    Bind(RSA(o.n, IF o.p = -1 \/ o.q = -1 THEN o.e ELSE o.d, -1, -1, FALSE),
         LAMBDA temp :
             Ok([temp EXCEPT
                   !.preprocess_raw_string = <<>>,
                   !.postprocess = <<"pad_numeric_representation",
                                     "convert_each_2_digits_to_char">>]))

\* RSA._make_decryption_object: the object it returns
RSA_make_decryption_object(o) ==
    IF o.p = -1 \/ o.q = -1 THEN Raise("ValueError")
    ELSE Bind(RSA(o.n, o.d, -1, -1, FALSE),
              LAMBDA temp :
                  Ok([temp EXCEPT
                        !.preprocess_raw_string = <<>>,
                        !.postprocess = <<"pad_numeric_representation",
                                          "convert_each_2_digits_to_char">>]))

(* ------------------------------ compound.py --------------------------- *)

\* CompoundCipher.__init__: ciphers is a sequence of references
CompoundCipher(ciphers, preprocess_raw_string) ==
    Ok([cls |-> "CompoundCipher", ciphers |-> ciphers]
       @@ Encryption(preprocess_raw_string, <<>>, <<>>, -1))

(* ---------------------- encryption.py: the pipeline ------------------- *)

\* a pipeline function, by the name the cipher's configuration gives it
Apply(o, f, x) ==
    CASE f = "caesar.to_lower_case" -> caesar_to_lower_case(x)
      [] f = "caesar.numeric_representation" -> caesar_numeric_representation(x)
      [] f = "caesar.character_representation" -> caesar_character_representation(x)
      [] f = "to_lower_case" -> to_lower_case(x)
      [] f = "numeric_representation" -> numeric_representation(x)
      [] f = "character_representation" -> character_representation(x)
      [] f = "pad_numeric_representation" -> pad_numeric_representation(x)
      [] f = "convert_to_rsa_format" -> convert_to_rsa_format(x)
      [] f = "remove_spaces" -> remove_spaces(x)
      [] f = "convert_each_2_digits_to_char" -> convert_each_2_digits_to_char(x)
      [] f = "pad" -> pad(o.group_by, x)
      [] f = "list" -> IF x.t = "str" THEN list(x)
                       ELSE IF x.t = "list" THEN Ok(x) ELSE Raise("TypeError")
      [] f = "join" -> IF x.t = "list" THEN join(x.v)
                       ELSE IF x.t = "str" THEN Ok(x) ELSE Raise("TypeError")
      [] f = "int" -> IF x.t = "int" THEN Ok(x) ELSE int(x)

\* Encryption._preprocess_raw_string
RECURSIVE _preprocess_raw_string(_, _, _)
_preprocess_raw_string(o, fs, raw_string) ==
    IF fs = <<>> THEN Ok(raw_string)
    ELSE Bind(Apply(o, Head(fs), raw_string),
              LAMBDA r : _preprocess_raw_string(o, Tail(fs), r))

\* Encryption._group_by: text is a str; range() refuses a step of 0
_group_by(o, text) ==
    LET group_by == IF o.group_by < 0 THEN Len(text.v) ELSE o.group_by
        last(i) == IF i * group_by > Len(text.v) THEN Len(text.v) ELSE i * group_by
    IN  IF group_by = 0 THEN Raise("ValueError")
        ELSE Ok([i \in 1..((Len(text.v) + group_by - 1) \div group_by) |->
                    PyStr(SubSeq(text.v, (i - 1) * group_by + 1, last(i)))])

\* Encryption._preprocess and Encryption._postprocess
RECURSIVE _process(_, _, _)
_process(o, fs, grouped_text) ==
    IF fs = <<>> THEN Ok(grouped_text)
    ELSE Bind(MapR(LAMBDA group : Apply(o, Head(fs), group), grouped_text),
              LAMBDA r : _process(o, Tail(fs), r))

RECURSIVE encrypt(_, _, _)

\* CompoundCipher._encrypt_group
RECURSIVE CompoundCipher_encrypt_group(_, _, _)
CompoundCipher_encrypt_group(h, ciphers, group) ==
    IF ciphers = <<>> THEN Ok(group)
    ELSE Bind(encrypt(h, Head(ciphers), group),
              LAMBDA r : CompoundCipher_encrypt_group(h, Tail(ciphers), r))

\* self._encrypt_group, dispatched on the class of self
_encrypt_group(h, o, group) ==
    CASE o.cls = "CaesarCipher" -> CaesarCipher_encrypt_group(o, group)
      [] o.cls = "VigenereCipher" -> VigenereCipher_encrypt_group(o, group)
      [] o.cls = "TranspositionCipher" -> TranspositionCipher_encrypt_group(o, group)
      [] o.cls = "RSA" -> RSA_encrypt_group(o, group)
      [] o.cls = "CompoundCipher" -> CompoundCipher_encrypt_group(h, o.ciphers, group)

\* Encryption._encrypt
_encrypt(h, o, grouped_text) ==
    MapR(LAMBDA group : _encrypt_group(h, o, group), grouped_text)

\* Encryption.encrypt; the consolidator is "".join in every cipher
encrypt(h, self, plaintext) ==
    LET o == h[self]
    IN  Bind(Bind(Bind(Bind(Bind(
            _preprocess_raw_string(o, o.preprocess_raw_string, plaintext),
            LAMBDA temp : _group_by(o, temp)),
            LAMBDA temp : _process(o, o.preprocess, temp)),
            LAMBDA temp : _encrypt(h, o, temp)),
            LAMBDA temp : _process(o, o.postprocess, temp)),
            LAMBDA temp : join(temp))

(* ---------------- encryption.py: the decryption object ---------------- *)

PyRef(i) == [t |-> "ref", v |-> i]

\* the outcome of a call that may change the heap
Effect(h, m, ret) == [heap |-> h, made |-> m, ret |-> ret]

\* the rest of a computation after such a call
Then(r, F(_)) == IF r.ret.exc # "" THEN r ELSE F(r)

\* a constructor's outcome, its object placed in the heap when it returns one
New(h, m, r) ==
    IF r.exc # "" THEN Effect(h, m, r)
    ELSE Effect(Append(h, r.val), Append(m, 0), Ok(PyRef(Len(h) + 1)))

Reverse(s) == [i \in DOMAIN s |-> s[Len(s) + 1 - i]]

RECURSIVE make_decryption_object(_, _, _)

\* CompoundCipher._make_decryption_object, its loop over self.ciphers
RECURSIVE decryption_ciphers(_, _, _, _)
decryption_ciphers(h, m, ciphers, acc) ==
    IF ciphers = <<>> THEN Effect(h, m, Ok(PyList(acc)))
    ELSE Then(make_decryption_object(h, m, Head(ciphers)),
              LAMBDA r : decryption_ciphers(r.heap, r.made, Tail(ciphers),
                                            Append(acc, r.ret.val.v)))

\* a decryption cipher that keeps the order of the sub-ciphers
CompoundCipher_make_decryption_object_same_order(h, m, o) ==
    Then(decryption_ciphers(h, m, o.ciphers, <<>>),
         LAMBDA r : New(r.heap, r.made, CompoundCipher(r.ret.val.v, <<>>)))

\* CompoundCipher._make_decryption_object
CompoundCipher_make_decryption_object(h, m, o) ==
    Then(decryption_ciphers(h, m, o.ciphers, <<>>),
         LAMBDA r : New(r.heap, r.made, CompoundCipher(Reverse(r.ret.val.v), <<>>)))

\* a decryption cipher that keeps the shift instead of negating it
CaesarCipher_make_decryption_object_same_shift(o) == CaesarCipher(o.shift)

\* CaesarCipher._make_decryption_object: the constructor call it makes
CaesarCipher_make_decryption_object(o) == CaesarCipher(-o.shift)

\* self._make_decryption_object, dispatched on the class of self; `made`
\* counts its invocations per object
_make_decryption_object(h, m, self) ==
    LET o == h[self]
        m1 == [m EXCEPT ![self] = @ + 1]
    IN  CASE o.cls = "CaesarCipher" -> New(h, m1, CaesarCipher_make_decryption_object(o))
          [] o.cls = "VigenereCipher" ->
                 New(h, m1, VigenereCipher_make_decryption_object(o))
          [] o.cls = "TranspositionCipher" ->
                 New(h, m1, TranspositionCipher_make_decryption_object(o))
          [] o.cls = "RSA" -> New(h, m1, RSA_make_decryption_object(o))
          [] o.cls = "CompoundCipher" -> CompoundCipher_make_decryption_object(h, m1, o)

\* a make_decryption_object that never looks at the cached object
make_decryption_object_uncached(h, m, self) ==
    Then(_make_decryption_object(h, m, self),
         LAMBDA r : Effect([r.heap EXCEPT
                               ![self].decryption_object = r.ret.val.v,
                               ![r.ret.val.v].is_decryption_object = TRUE],
                           r.made, r.ret))

\* a make_decryption_object that turns self into its decryption object: the
\* fields of the new object overwrite those of self
make_decryption_object_in_place(h, m, self) ==
    IF h[self].decryption_object = 0
    THEN Then(_make_decryption_object(h, m, self),
              LAMBDA r : Effect([r.heap EXCEPT
                                    ![self] = [r.heap[r.ret.val.v] EXCEPT
                                                  !.decryption_object = r.ret.val.v],
                                    ![r.ret.val.v].is_decryption_object = TRUE],
                                r.made, r.ret))
    ELSE Effect(h, m, Ok(PyRef(h[self].decryption_object)))

\* Encryption.make_decryption_object
make_decryption_object(h, m, self) ==
    IF h[self].decryption_object = 0
    THEN Then(_make_decryption_object(h, m, self),
              LAMBDA r : Effect([r.heap EXCEPT
                                    ![self].decryption_object = r.ret.val.v,
                                    ![r.ret.val.v].is_decryption_object = TRUE],
                                r.made, r.ret))
    ELSE Effect(h, m, Ok(PyRef(h[self].decryption_object)))

\* Encryption.decrypt
decrypt(h, m, self, ciphertext) ==
    Then(make_decryption_object(h, m, self),
         LAMBDA r : Effect(r.heap, r.made, encrypt(r.heap, r.ret.val.v, ciphertext)))

(* ------------------------------- inputs ------------------------------- *)

\* 'a', 'z', ' ', '?'
Alphabet == {97, 122, 32, 63}

\* 'a', 'c', 'z', ' '
RSAAlphabet == {97, 99, 122, 32}

Texts(A) == UNION {[1..k -> A] : k \in 0..MaxLen}

\* the 5 of caesar.py's demo, its negation, no shift, and shifts beyond 26
Shifts == {5, -5, 0, 26, -27}

\* two shifts for the ciphers that chain a shift with a transposition
CompoundShifts == {5, -27}

\* "b", "az", "zab"
Keys == {<<98>>, <<97, 122>>, <<122, 97, 98>>}

\* the permutations of 0..n-1, as Python lists
Perms(n) == {f \in [1..n -> 0..(n - 1)] : \A i, j \in 1..n : f[i] = f[j] => i = j}

\* every permutation of one, two and three positions
Sigmas == UNION {Perms(n) : n \in {1, 2, 3}}

\* <<p, q, e>>: the demo key of rsa.py, two small keys with a two-digit
\* block, and an e that shares a factor with phi
RSAKeys == {<<43, 59, 13>>, <<5, 7, 5>>, <<11, 13, 7>>, <<5, 7, 3>>}

(* ---------------------------- the operations -------------------------- *)

Objects == 1..Len(heap)

\* in the heap h, the object i and the decryption objects cached from it on
RECURSIVE Chain(_, _)
Chain(h, i) ==
    {i} \cup (IF h[i].decryption_object = 0 THEN {}
              ELSE Chain(h, h[i].decryption_object))

\* the objects the caller holds: `cipher`, and what make_decryption_object
\* has returned for them
Held(i) == Chain(heap, i)

\* a call the bounds of the model allow
Bounded(r) ==
    /\ Cardinality(Chain(r.heap, cipher)) <= MaxHeap
    /\ \A i \in DOMAIN r.made : r.made[i] <= MaxMade

\* sent = cipher.encrypt(message)
Encrypt ==
    \E self \in Held(cipher) :
        /\ call' = [op |-> "encrypt", self |-> self, arg |-> message,
                    ret |-> encrypt(heap, self, message)]
        /\ sent' = call'
        /\ UNCHANGED <<heap, made, cipher, message>>

\* the ciphertext of the last encrypt call, and the empty text
Ciphertexts ==
    {PyStr(<<>>)} \cup
    (IF sent.op = "encrypt" /\ sent.ret.exc = ""
     THEN {sent.ret.val} ELSE {})

\* cipher.decrypt(ciphertext)
Decrypt ==
    \E self \in Held(cipher) : \E x \in Ciphertexts :
        \E r \in {decrypt(heap, made, self, x)} :
            /\ Bounded(r)
            /\ heap' = r.heap
            /\ made' = r.made
            /\ call' = [op |-> "decrypt", self |-> self, arg |-> x, ret |-> r.ret]
            /\ UNCHANGED <<cipher, message, sent>>

\* cipher.make_decryption_object()
MakeDecryptionObject ==
    \E self \in Held(cipher) :
        \E r \in {make_decryption_object(heap, made, self)} :
            /\ Bounded(r)
            /\ heap' = r.heap
            /\ made' = r.made
            /\ call' = [op |-> "make_decryption_object", self |-> self,
                        arg |-> PyNone, ret |-> r.ret]
            /\ UNCHANGED <<cipher, message, sent>>

\* cipher.print_decryption_table(ciphertext) on a non-empty ciphertext: the
\* value it returns is the pipeline's; the table it prints is not modelled
PrintDecryptionTable ==
    \E self \in Held(cipher) : \E x \in Ciphertexts \ {PyStr(<<>>)} :
        \E r \in {decrypt(heap, made, self, x)} :
            /\ Bounded(r)
            /\ heap' = r.heap
            /\ made' = r.made
            /\ call' = [op |-> "print_decryption_table", self |-> self, arg |-> x,
                        ret |-> r.ret]
            /\ UNCHANGED <<cipher, message, sent>>

Next == Encrypt \/ Decrypt \/ MakeDecryptionObject \/ PrintDecryptionTable

NoCall == [op |-> "init", self |-> 0, arg |-> PyNone, ret |-> Ok(PyNone)]

\* the state after constructing the objects `objs`, the last of them being
\* `cipher`, with the text `s` at hand
Constructed(objs, s) ==
    /\ heap = objs
    /\ cipher = Len(objs)
    /\ made = [i \in DOMAIN objs |-> 0]
    /\ message = PyStr(s)
    /\ call = NoCall
    /\ sent = NoCall

\* cipher = CaesarCipher(k)
InitCaesar ==
    \E k \in Shifts : \E s \in Texts(Alphabet) : Constructed(<<CaesarCipher(k).val>>, s)

SpecCaesar == InitCaesar /\ [][Next]_vars

\* cipher = VigenereCipher(key)
InitVigenere ==
    \E key \in Keys : \E s \in Texts(Alphabet) :
        Constructed(<<VigenereCipher(PyStr(key)).val>>, s)

SpecVigenere == InitVigenere /\ [][Next]_vars

\* cipher = TranspositionCipher(sigma)
InitTransposition ==
    \E sigma \in Sigmas : \E s \in Texts(Alphabet) :
        Constructed(<<TranspositionCipher(PyList(sigma), -1).val>>, s)

SpecTransposition == InitTransposition /\ [][Next]_vars

\* cipher = RSA.make_RSA_object(p, q, e)
InitRSA ==
    \E k \in RSAKeys : \E s \in Texts(RSAAlphabet) :
        /\ make_RSA_object(k[1], k[2], k[3]).exc = ""
        /\ Constructed(<<make_RSA_object(k[1], k[2], k[3]).val>>, s)

SpecRSA == InitRSA /\ [][Next]_vars

\* cipher = RSA(n, e, p, q) with one of the primes, or both, left out
InitPublicRSA ==
    \E k \in RSAKeys : \E pq \in {<<-1, -1>>, <<k[1], -1>>, <<-1, k[2]>>} :
        \E s \in Texts(RSAAlphabet) :
            Constructed(<<RSA(k[1] * k[2], PyInt(k[3]), pq[1], pq[2], FALSE).val>>, s)

\* an RSA cipher with or without its primes
SpecAnyRSA == (InitRSA \/ InitPublicRSA) /\ [][Next]_vars

\* cipher = CompoundCipher([CaesarCipher(k), TranspositionCipher(sigma)])
InitCompound ==
    \E k \in CompoundShifts : \E sigma \in Sigmas : \E s \in Texts(Alphabet) :
        Constructed(<<CaesarCipher(k).val,
                      TranspositionCipher(PyList(sigma), -1).val,
                      CompoundCipher(<<1, 2>>, <<>>).val>>, s)

SpecCompound == InitCompound /\ [][Next]_vars

Init == InitCaesar \/ InitVigenere \/ InitTransposition \/ InitRSA \/ InitCompound

Spec == Init /\ [][Next]_vars

\* 'a', ' '
ShortAlphabet == {97, 32}

\* a cipher of any of the five classes, with a text drawn from a short
\* alphabet: the sequences of calls on one instance
InitCalls ==
    \E s \in Texts(ShortAlphabet) :
        \/ \E k \in CompoundShifts : Constructed(<<CaesarCipher(k).val>>, s)
        \/ \E key \in Keys : Constructed(<<VigenereCipher(PyStr(key)).val>>, s)
        \/ \E sigma \in Perms(2) :
               Constructed(<<TranspositionCipher(PyList(sigma), -1).val>>, s)
        \/ \E k \in RSAKeys :
               /\ make_RSA_object(k[1], k[2], k[3]).exc = ""
               /\ Constructed(<<make_RSA_object(k[1], k[2], k[3]).val>>, s)
        \/ \E k \in CompoundShifts : \E sigma \in Perms(2) :
               Constructed(<<CaesarCipher(k).val,
                             TranspositionCipher(PyList(sigma), -1).val,
                             CompoundCipher(<<1, 2>>, <<>>).val>>, s)

SpecCalls == InitCalls /\ [][Next]_vars

\* cipher = CompoundCipher([CaesarCipher(k), TranspositionCipher(sigma)]) with
\* a sigma that is its own inverse and one that is not, and a text drawn from
\* a short alphabet: the order of the stages
InitStages ==
    \E k \in CompoundShifts : \E sigma \in {<<1, 0>>, <<1, 2, 0>>} :
        \E s \in Texts(ShortAlphabet) :
            Constructed(<<CaesarCipher(k).val,
                          TranspositionCipher(PyList(sigma), -1).val,
                          CompoundCipher(<<1, 2>>, <<>>).val>>, s)

SpecStages == InitStages /\ [][Next]_vars

(* --------------------- transposition: construction -------------------- *)

\* a sigma given as a function, known by its values sigma(0), ..., sigma(n-1)
PyFunction(table) == [t |-> "function", v |-> table]

\* nothing constructed yet; at hand a sigma, as a list or as a function, and
\* the block size n, or -1 for none
InitSigma ==
    /\ heap = <<>>
    /\ cipher = 0
    /\ made = <<>>
    /\ \E table \in Sigmas : \E n \in {-1, 1, 2, 3} :
           \E sigma \in {PyList(table), PyFunction(table)} :
               message = [sigma |-> sigma, n |-> n]
    /\ call = NoCall
    /\ sent = NoCall

\* cipher = TranspositionCipher(sigma, n)
NewTranspositionCipher ==
    /\ heap = <<>>
    /\ \E r \in {TranspositionCipher(message.sigma, message.n)} :
           /\ heap' = IF r.exc = "" THEN <<r.val>> ELSE heap
           /\ cipher' = Len(heap')
           /\ made' = [i \in DOMAIN heap' |-> 0]
           /\ call' = [op |-> "TranspositionCipher", self |-> 0, arg |-> PyNone,
                       ret |-> IF r.exc = "" THEN Ok(PyRef(1)) ELSE r]
    /\ UNCHANGED <<message, sent>>

SpecSigma == InitSigma /\ [][NewTranspositionCipher]_vars

(* ------------------------- RSA keys: operations ----------------------- *)

\* the arguments at hand when both primes may be given: p and q are -1 (not
\* given) or any number up to MaxP, n is p * q or misses it by one, and e goes
\* from below 1 to above phi
GivenKeys ==
    UNION {UNION {{[n |-> n, e |-> e, p |-> p, q |-> q] :
                      e \in -1..((p - 1) * (q - 1) + 1)} :
                  n \in {p * q, p * q + 1}} :
           p \in -1..MaxP, q \in -1..MaxP}

\* the n = 2537, e = 13 of rsa.py's demo
DemoKey == [n |-> 2537, e |-> 13, p |-> -1, q |-> -1]

\* the arguments at hand when only n and e are known
PublicKeys ==
    {DemoKey} \cup
    UNION {{[n |-> n, e |-> e, p |-> -1, q |-> -1] : e \in 0..(n + 1)} :
           n \in 0..MaxModulus}

\* nothing constructed yet, the arguments of the call to come in `message`
InitKeys ==
    /\ heap = <<>>
    /\ cipher = 0
    /\ made = <<>>
    /\ message \in GivenKeys \cup PublicKeys
    /\ call = NoCall
    /\ sent = NoCall

\* the state after a constructor call named op returned r
Construction(op, r) ==
    /\ heap' = IF r.exc = "" THEN <<r.val>> ELSE heap
    /\ cipher' = Len(heap')
    /\ made' = [i \in DOMAIN heap' |-> 0]
    /\ call' = [op |-> op, self |-> 0, arg |-> PyNone,
                ret |-> IF r.exc = "" THEN Ok(PyRef(1)) ELSE r]
    /\ UNCHANGED <<message, sent>>

\* cipher = RSA(n, e, p, q, calculate_p_q)
NewRSA ==
    /\ heap = <<>>
    /\ \E calculate_p_q \in BOOLEAN :
           Construction("RSA", RSA(message.n, PyInt(message.e), message.p,
                                   message.q, calculate_p_q))

\* cipher = RSA.make_RSA_object(p, q, e)
MakeRSAObject ==
    /\ heap = <<>>
    /\ Construction("make_RSA_object",
                    make_RSA_object(message.p, message.q, message.e))

\* RSA.calculate_p_and_q(n, e)
CalculatePAndQ ==
    /\ call' = [op |-> "calculate_p_and_q", self |-> 0, arg |-> PyNone,
                ret |-> calculate_p_and_q(message.n, message.e)]
    /\ UNCHANGED <<heap, made, cipher, message, sent>>

NextKeys == NewRSA \/ MakeRSAObject \/ CalculatePAndQ

SpecKeys == InitKeys /\ [][NextKeys]_vars

(* --------------------- RSA: the private exponent ---------------------- *)

\* the e = 13 and phi = (43 - 1) * (59 - 1) of rsa.py's demo
DemoExponent == [e |-> 13, phi |-> 2436]

\* at hand an exponent e and a totient phi, each up to MaxModulus
InitInverse ==
    /\ heap = <<>>
    /\ cipher = 0
    /\ made = <<>>
    /\ message \in {DemoExponent}
                   \cup {[e |-> e, phi |-> phi] : e \in 0..MaxModulus,
                                                 phi \in 0..MaxModulus}
    /\ call = NoCall
    /\ sent = NoCall

\* RSA.calculate_d(e, phi)
CalculateD ==
    /\ call' = [op |-> "calculate_d", self |-> 0, arg |-> PyNone,
                ret |-> calculate_d(message.e, message.phi)]
    /\ UNCHANGED <<heap, made, cipher, message, sent>>

\* RSA.calculate_d_slow(e, phi)
CalculateDSlow ==
    /\ call' = [op |-> "calculate_d_slow", self |-> 0, arg |-> PyNone,
                ret |-> calculate_d_slow(message.e, message.phi)]
    /\ UNCHANGED <<heap, made, cipher, message, sent>>

NextInverse == CalculateD \/ CalculateDSlow

SpecInverse == InitInverse /\ [][NextInverse]_vars

(* ------------------------------- claims ------------------------------- *)

\* s holds only lowercase letters and spaces
LowerSpace(s) == \A i \in DOMAIN s : s[i] = 32 \/ (s[i] >= 97 /\ s[i] <= 122)

NoSpaces(s) == SelectSeq(s, LAMBDA ch : ch # 32)

\* s followed by the '?' fillers that bring its length to a multiple of n
Padded(s, n) == s \o [i \in 1..((n - (Len(s) % n)) % n) |-> 63]

\* the last call was decrypt, by a cipher of class cls, of the ciphertext that
\* the same cipher made of `message`
RoundTrip(cls) ==
    /\ call.op = "decrypt"
    /\ sent.op = "encrypt" /\ sent.self = call.self /\ sent.ret.exc = ""
    /\ call.arg = sent.ret.val
    /\ heap[call.self].cls = cls

\* the last call was encrypt, by a cipher of class cls
Encrypted(cls) == call.op = "encrypt" /\ heap[call.self].cls = cls

\* the RSA object o was built from its primes and holds the inverse of e
RSAKeyPair(o) ==
    /\ o.p # -1 /\ o.q # -1
    /\ o.d.t = "int" /\ (o.e.v * o.d.v) % o.phi.v = 1

\* C1: decrypting what an RSA cipher built from its primes made of a text of
\* lowercase letters and spaces returns the text without its spaces.
C1_RSARoundTrip ==
    (RoundTrip("RSA") /\ RSAKeyPair(heap[call.self]) /\ LowerSpace(message.v))
        => call.ret = Ok(PyStr(NoSpaces(message.v)))

\* C2: decrypting what CompoundCipher([CaesarCipher(k), TranspositionCipher(sigma)])
\* made of a non-empty text of lowercase letters and spaces returns the text,
\* followed only by the transposition's '?' fillers.
C2_CompoundRoundTrip ==
    (RoundTrip("CompoundCipher") /\ call.self = cipher
        /\ LowerSpace(message.v) /\ message.v # <<>>)
        => call.ret = Ok(PyStr(Padded(message.v, heap[2].group_by)))

\* C3: CaesarCipher(k).encrypt maps each letter code p to (p + k) mod 26 and
\* keeps spaces, the decryption cipher is a CaesarCipher with shift -k, and
\* decrypt(encrypt(s)) = s for every s of lowercase letters and spaces.
C3_ShiftRoundTrip ==
    /\ (Encrypted("CaesarCipher") /\ LowerSpace(message.v))
           => call.ret = Ok(PyStr([i \in DOMAIN message.v |->
                  IF message.v[i] = 32 THEN 32
                  ELSE 97 + ((message.v[i] - 97 + heap[call.self].shift) % 26)]))
    /\ \A i \in Objects :
           (heap[i].cls = "CaesarCipher" /\ heap[i].decryption_object # 0)
               => /\ heap[heap[i].decryption_object].cls = "CaesarCipher"
                  /\ heap[heap[i].decryption_object].shift = -heap[i].shift
    /\ (RoundTrip("CaesarCipher") /\ LowerSpace(message.v)) => call.ret = Ok(message)

\* a CaesarCipher(5) made "f " of "a " and decrypted it back to "a "
C3_Witness ==
    /\ RoundTrip("CaesarCipher") /\ heap[call.self].shift = 5
    /\ message = PyStr(<<97, 32>>) /\ sent.ret.val = PyStr(<<102, 32>>)
    /\ call.ret = Ok(message)

\* C4: VigenereCipher(key).encrypt of a non-empty s of lowercase letters and
\* spaces gives (s[i] + key[i mod keyLength]) mod 26 at each letter position i
\* of the whole text and keeps the spaces, and decrypt(encrypt(s)) = s.
C4_PolyalphabeticRoundTrip ==
    /\ (Encrypted("VigenereCipher") /\ LowerSpace(message.v) /\ message.v # <<>>)
           => LET key == heap[call.self].key.v
              IN  call.ret = Ok(PyStr([i \in DOMAIN message.v |->
                      IF message.v[i] = 32 THEN 32
                      ELSE 97 + ((message.v[i] - 97
                                  + key[((i - 1) % Len(key)) + 1].v) % 26)]))
    /\ (RoundTrip("VigenereCipher") /\ LowerSpace(message.v) /\ message.v # <<>>)
           => call.ret = Ok(message)

\* VigenereCipher("az") made " y" of " z" and decrypted it back to " z"
C4_Witness ==
    /\ RoundTrip("VigenereCipher")
    /\ heap[call.self].key = PyList(<<PyInt(0), PyInt(25)>>)
    /\ message = PyStr(<<32, 122>>) /\ sent.ret.val = PyStr(<<32, 121>>)
    /\ call.ret = Ok(message)

\* C5: TranspositionCipher(sigma).encrypt puts the symbol at position i of each
\* block of the padded text at position sigma[i], the decryption cipher's
\* permutation inverts sigma, and decrypt(encrypt(s)) is the padded s.
C5_TranspositionRoundTrip ==
    /\ Encrypted("TranspositionCipher")
           => LET o == heap[call.self]
                  n == o.group_by
                  padded == Padded(message.v, n)
              IN  /\ call.ret.exc = ""
                  /\ Len(call.ret.val.v) = Len(padded)
                  /\ \A b \in 0..((Len(padded) \div n) - 1) : \A i \in 1..n :
                         call.ret.val.v[b * n + o.sigma[i] + 1] = padded[b * n + i]
    /\ \A k \in Objects :
           (heap[k].cls = "TranspositionCipher" /\ heap[k].decryption_object # 0)
               => \A i \in 1..heap[k].group_by :
                      heap[heap[k].decryption_object].sigma[heap[k].sigma[i] + 1] = i - 1
    /\ RoundTrip("TranspositionCipher")
           => call.ret = Ok(PyStr(Padded(message.v, heap[call.self].group_by)))

\* TranspositionCipher([1, 2, 0]) made "?az" of "az" and decrypted it to "az?"
C5_Witness ==
    /\ RoundTrip("TranspositionCipher")
    /\ heap[call.self].sigma = <<1, 2, 0>>
    /\ heap[heap[call.self].decryption_object].sigma = <<2, 0, 1>>
    /\ message = PyStr(<<97, 122>>) /\ sent.ret.val = PyStr(<<63, 97, 122>>)
    /\ call.ret = Ok(PyStr(<<97, 122, 63>>))

\* C6: each symbol of the input that is not a lowercase letter stands
\* unchanged, at its position, in what CaesarCipher and VigenereCipher encrypt.
C6_PassThrough ==
    (Encrypted("CaesarCipher") \/ Encrypted("VigenereCipher"))
        => \A i \in DOMAIN message.v :
               (message.v[i] < 97 \/ message.v[i] > 122)
                   => /\ call.ret.exc = ""
                      /\ Len(call.ret.val.v) = Len(message.v)
                      /\ call.ret.val.v[i] = message.v[i]

\* the object i can derive its decryption object: any cipher but an RSA
\* without its primes
Invertible(i) == heap[i].cls = "RSA" => (heap[i].p # -1 /\ heap[i].q # -1)

\* C7: over any sequence of decrypt, make_decryption_object and
\* print_decryption_table calls, an instance's _make_decryption_object runs at
\* most once, a cached decryption object is never replaced, every call returns
\* or uses the cached object, and decrypt(x) is the cached object's encrypt(x).
C7_MemoizedInverse ==
    /\ [](/\ \A i \in Objects :
                Invertible(i) => /\ made[i] <= 1
                                 /\ made[i] = 1 <=> heap[i].decryption_object # 0
          /\ (call.op = "make_decryption_object" /\ Invertible(call.self))
                => /\ heap[call.self].decryption_object # 0
                   /\ call.ret = Ok(PyRef(heap[call.self].decryption_object))
          /\ (call.op \in {"decrypt", "print_decryption_table"}
                /\ Invertible(call.self))
                => /\ heap[call.self].decryption_object # 0
                   /\ call.ret = encrypt(heap, heap[call.self].decryption_object,
                                         call.arg))
    /\ [][\A i \in Objects :
            heap[i].decryption_object # 0
                => heap'[i].decryption_object = heap[i].decryption_object]_vars

\* `cipher` decrypted what its decryption object, made by an earlier call, had
\* encrypted: a second use of the one object its _make_decryption_object made
C7_Witness ==
    /\ call.op = "decrypt" /\ call.self = cipher
    /\ heap[cipher].decryption_object # 0
    /\ sent.self = heap[cipher].decryption_object /\ sent.ret.exc = ""
    /\ call.arg = sent.ret.val /\ call.arg # PyStr(<<>>)
    /\ call.ret.exc = ""
    /\ made[cipher] = 1

\* C8: encrypt of the empty text returns the empty text, for every cipher.
C8_EmptyInput ==
    (call.op = "encrypt" /\ message.v = <<>>) => call.ret = Ok(PyStr(<<>>))

\* C9: RSA(n, e, p, q) with both primes given raises an error and makes no
\* instance when p * q is not n, and when e is not in 1 <= e < (p-1)*(q-1).
C9_ConstructionValidation ==
    (call.op = "RSA" /\ message.p # -1 /\ message.q # -1
        /\ (\/ message.p * message.q # message.n
            \/ message.e < 1
            \/ message.e >= (message.p - 1) * (message.q - 1)))
        => /\ call.ret.exc # ""
           /\ heap = <<>>

\* RSA(15, 8, 3, 5), with e = phi, raised ValueError and made no instance
C9_Witness ==
    /\ call.op = "RSA"
    /\ message = [n |-> 15, e |-> 8, p |-> 3, q |-> 5]
    /\ call.ret = Raise("ValueError")
    /\ heap = <<>>

IsPrime(k) == k >= 2 /\ \A d \in 2..(k - 1) : k % d # 0

\* C10: for n = p * q with p and q prime and 2 <= e < n, calculate_p_and_q(n, e)
\* returns a pair (p', q') with {p', q'} = {p, q} and p' * q' = n.
C10_KeyRecovery ==
    (call.op = "calculate_p_and_q" /\ message.e >= 2 /\ message.e < message.n)
        => \A p \in 2..message.n :
               (message.n % p = 0 /\ IsPrime(p) /\ IsPrime(message.n \div p))
                   => /\ call.ret.exc = ""
                      /\ {call.ret.val[1], call.ret.val[2]} = {p, message.n \div p}
                      /\ call.ret.val[1] * call.ret.val[2] = message.n

\* calculate_p_and_q(2537, 13) returned (43, 59)
C10_Witness ==
    /\ call.op = "calculate_p_and_q"
    /\ message.n = 2537 /\ message.e = 13
    /\ call.ret = Ok(<<43, 59>>)

\* the object i is an RSA cipher that lacks p or q
WithoutPrimes(i) == heap[i].cls = "RSA" /\ (heap[i].p = -1 \/ heap[i].q = -1)

\* C11: on an RSA instance without p or q, decryption objects included,
\* make_decryption_object and decrypt raise an error and the instance's cached
\* decryption object stays unset, whatever calls came before.
C11_DecryptionNeedsPrimes ==
    /\ \A i \in Objects : WithoutPrimes(i) => heap[i].decryption_object = 0
    /\ \A i \in Objects : heap[i].cls = "RSA" /\ heap[i].is_decryption_object
                              => WithoutPrimes(i)
    /\ (call.op \in {"make_decryption_object", "decrypt"} /\ WithoutPrimes(call.self))
           => call.ret.exc # ""

\* decrypt raised ValueError for the second time on an RSA(n, e) built without
\* primes, which still has no decryption object
C11_Witness ==
    /\ call.op = "decrypt" /\ call.self = cipher
    /\ WithoutPrimes(cipher) /\ ~heap[cipher].is_decryption_object
    /\ made[cipher] = 2
    /\ call.ret = Raise("ValueError")
    /\ heap[cipher].decryption_object = 0

\* what the raw preprocessing of the object i makes of `message`
RawPreprocessed(i) ==
    _preprocess_raw_string(heap[i], heap[i].preprocess_raw_string, message)

\* C12: for a TranspositionCipher of block size n >= 1 and a non-empty input s,
\* the raw-preprocessed text is s followed by at most n - 1 '?' fillers and
\* its length, which is the length of what encrypt returns, is a positive
\* multiple of n.
C12_PaddingBound ==
    (Encrypted("TranspositionCipher") /\ message.v # <<>>)
        => LET n == heap[call.self].group_by
               padded == RawPreprocessed(call.self)
               fillers == Len(padded.val.v) - Len(message.v)
           IN  /\ n >= 1
               /\ padded.exc = ""
               /\ fillers >= 0 /\ fillers <= n - 1
               /\ SubSeq(padded.val.v, 1, Len(message.v)) = message.v
               /\ \A i \in (Len(message.v) + 1)..Len(padded.val.v) :
                      padded.val.v[i] = 63
               /\ Len(padded.val.v) > 0 /\ Len(padded.val.v) % n = 0
               /\ call.ret.exc = ""
               /\ Len(call.ret.val.v) = Len(padded.val.v)

\* a TranspositionCipher of block size 3 encrypted "a", padded with two fillers
C12_Witness ==
    /\ Encrypted("TranspositionCipher") /\ heap[call.self].group_by = 3
    /\ message = PyStr(<<97>>)
    /\ RawPreprocessed(call.self) = Ok(PyStr(<<97, 63, 63>>))
    /\ call.ret.exc = "" /\ Len(call.ret.val.v) = 3

\* C13: every RSA instance constructed with its primes holds a d with
\* 0 <= d < phi and (e * d) mod phi = 1, and constructing with an e that is
\* not coprime to phi = (p - 1) * (q - 1) raises an error and makes no instance.
C13_PrivateExponent ==
    /\ \A i \in Objects :
           (heap[i].cls = "RSA" /\ heap[i].p # -1 /\ heap[i].q # -1)
               => /\ heap[i].d.t = "int"
                  /\ heap[i].d.v >= 0 /\ heap[i].d.v < heap[i].phi.v
                  /\ (heap[i].e.v * heap[i].d.v) % heap[i].phi.v = 1
    /\ (call.op \in {"RSA", "make_RSA_object"}
           /\ message.p # -1 /\ message.q # -1 /\ message.e >= 1
           /\ (message.p - 1) * (message.q - 1) > 0
           /\ gcd(message.e, (message.p - 1) * (message.q - 1)) # 1)
           => /\ call.ret.exc # ""
              /\ heap = <<>>

\* the divisors f of n in 2..n-1 modulo whose (f - 1) * (n / f - 1) the
\* exponent e has an inverse
InvertibleDivisors(n, e) ==
    {f \in 2..(n - 1) : n % f = 0 /\ gcd(e, (f - 1) * ((n \div f) - 1)) = 1}

\* C14: for 2 <= e < n, calculate_p_and_q(n, e) returns (f, n / f) for the
\* first divisor f of n in 2..n-1 modulo whose (f - 1) * (n / f - 1) e has an
\* inverse, skipping the divisors without one, and (-1, -1) when there is none.
C14_KeyRecoveryFilter ==
    (call.op = "calculate_p_and_q" /\ message.n >= 2
        /\ message.e >= 2 /\ message.e < message.n)
        => LET good == InvertibleDivisors(message.n, message.e)
               f == CHOOSE x \in good : \A y \in good : x <= y
           IN  call.ret = IF good = {} THEN Ok(<<-1, -1>>)
                          ELSE Ok(<<f, message.n \div f>>)

\* the largest block of c two-digit codes that are 25 at most: 25 written c times
RECURSIVE MaxBlock(_)
MaxBlock(c) == IF c = 0 THEN 0 ELSE MaxBlock(c - 1) * 100 + 25

\* C15: the group_by of every constructed RSA instance of a modulus n >= 2 is
\* a positive even number 2c of digits such that every block of c two-digit codes, each 25 at
\* most, is less than n.
C15_BlockSize ==
    \A i \in Objects :
        (heap[i].cls = "RSA" /\ heap[i].n >= 2)
            => /\ heap[i].group_by = calculate_group_by(heap[i].n)
               /\ heap[i].group_by > 0
               /\ heap[i].group_by % 2 = 0
               /\ MaxBlock(heap[i].group_by \div 2) < heap[i].n

\* C16, as stated: TranspositionCipher.encrypt always appends at least one
\* '?' filler to its input, also when the length of the input is a positive
\* multiple of the block size n.
C16_NeverZeroPad ==
    (Encrypted("TranspositionCipher") /\ message.v # <<>>)
        => /\ RawPreprocessed(call.self).exc = ""
           /\ Len(RawPreprocessed(call.self).val.v) > Len(message.v)

\* C16, amended: when the length of the input is a positive multiple of the
\* block size n, the padding adds no filler: the raw-preprocessed text is the
\* input itself and encrypt returns a text of the input's length; otherwise
\* it adds n - (length mod n) fillers.
C16_ExactMultipleNoPad ==
    (Encrypted("TranspositionCipher") /\ message.v # <<>>)
        => LET n == heap[call.self].group_by
               padded == RawPreprocessed(call.self)
           IN  /\ padded.exc = "" /\ call.ret.exc = ""
               /\ Len(message.v) % n = 0
                      => /\ padded.val = message
                         /\ Len(call.ret.val.v) = Len(message.v)
               /\ Len(message.v) % n # 0
                      => Len(padded.val.v) = Len(message.v) + n - (Len(message.v) % n)

\* TranspositionCipher([1, 0]) encrypted "az", of two symbols, to "za": no filler
C16_Witness ==
    /\ Encrypted("TranspositionCipher") /\ heap[call.self].sigma = <<1, 0>>
    /\ message = PyStr(<<97, 122>>)
    /\ RawPreprocessed(call.self) = Ok(message)
    /\ call.ret = Ok(PyStr(<<122, 97>>))

\* C17: the decryption cipher of a VigenereCipher with an alphabetic key has a
\* numeric key of the same length whose digit at each position i is
\* (26 - key[i]) mod 26, a number in 0..25.
C17_InversionKey ==
    \A k \in Objects :
        (/\ heap[k].cls = "VigenereCipher"
         /\ heap[k].decryption_object # 0
         /\ \A i \in DOMAIN heap[k].key.v :
                heap[k].key.v[i].v >= 0 /\ heap[k].key.v[i].v <= 25)
            => LET key == heap[k].key.v
                   n_key == heap[heap[k].decryption_object].key.v
               IN  /\ heap[heap[k].decryption_object].cls = "VigenereCipher"
                   /\ Len(n_key) = Len(key)
                   /\ \A i \in DOMAIN key :
                          /\ n_key[i].v = (26 - key[i].v) % 26
                          /\ n_key[i].v >= 0 /\ n_key[i].v <= 25

\* the heap with every object as its constructor left it: no decryption
\* object cached
Fresh(h) == [i \in DOMAIN h |-> [h[i] EXCEPT !.decryption_object = 0]]

\* C18: encrypt changes no field of any object; no call changes a field of an
\* object other than its cached decryption object and the mark of a
\* decryption object; and whatever calls came before, encrypt(x) on `cipher`
\* returns what it returns on the freshly constructed instance.
C18_PipelinePurity ==
    /\ [][(call'.op = "encrypt" /\ call' # call) => (heap' = heap /\ made' = made)]_vars
    /\ [][\A i \in Objects :
            /\ i \in DOMAIN heap'
            /\ [heap'[i] EXCEPT !.decryption_object = 0, !.is_decryption_object = FALSE]
                   = [heap[i] EXCEPT !.decryption_object = 0,
                                     !.is_decryption_object = FALSE]]_vars
    /\ []((call.op = "encrypt" /\ call.self = cipher)
              => call.ret = encrypt(Fresh(heap), cipher, message))

\* `cipher`, whose decryption object an earlier call has cached, encrypted a
\* non-empty text to what a fresh instance makes of it
C18_Witness ==
    /\ call.op = "encrypt" /\ call.self = cipher
    /\ heap[cipher].decryption_object # 0 /\ made[cipher] = 1
    /\ message.v # <<>>
    /\ call.ret.exc = "" /\ call.ret.val.v # <<>>
    /\ call.ret = encrypt(Fresh(heap), cipher, message)

\* the text x run through the encrypt of the ciphers cs, first to last
RECURSIVE Stages(_, _)
Stages(cs, x) ==
    IF cs = <<>> THEN Ok(x)
    ELSE Bind(encrypt(heap, Head(cs), x), LAMBDA t : Stages(Tail(cs), t))

\* C19: the decryption cipher of a CompoundCipher with sub-ciphers
\* [c_0, ..., c_{m-1}] is a CompoundCipher with the sub-ciphers
\* [dec(c_{m-1}), ..., dec(c_0)], dec(c_i) being c_i's own cached decryption
\* object; decrypt of a non-empty text runs it through the inverse of the last
\* stage first and the inverse of the first stage last.
C19_InversionOrder ==
    /\ \A k \in Objects :
           (heap[k].cls = "CompoundCipher" /\ heap[k].decryption_object # 0)
               => LET cs == heap[k].ciphers
                      d == heap[heap[k].decryption_object]
                  IN  /\ d.cls = "CompoundCipher"
                      /\ Len(d.ciphers) = Len(cs)
                      /\ \A j \in DOMAIN cs :
                             /\ heap[cs[Len(cs) + 1 - j]].decryption_object # 0
                             /\ d.ciphers[j] = heap[cs[Len(cs) + 1 - j]].decryption_object
    /\ (call.op = "decrypt" /\ heap[call.self].cls = "CompoundCipher"
           /\ call.arg.v # <<>>)
           => LET cs == heap[call.self].ciphers
              IN  call.ret = Stages([j \in DOMAIN cs |->
                                        heap[cs[Len(cs) + 1 - j]].decryption_object],
                                    call.arg)

\* CompoundCipher([CaesarCipher(5), TranspositionCipher([1, 2, 0])]) decrypted
\* what it made of "aa" with CompoundCipher([dec of the transposition, dec of
\* the shift])
C19_Witness ==
    /\ RoundTrip("CompoundCipher") /\ call.self = cipher
    /\ heap[1].shift = 5 /\ heap[2].sigma = <<1, 2, 0>>
    /\ message = PyStr(<<97, 97>>)
    /\ heap[heap[cipher].decryption_object].ciphers
           = <<heap[2].decryption_object, heap[1].decryption_object>>
    /\ heap[heap[2].decryption_object].sigma = <<2, 0, 1>>
    /\ heap[heap[1].decryption_object].shift = -5
    /\ call.ret.exc = "" /\ SubSeq(call.ret.val.v, 1, 2) = <<97, 97>>

\* C20: TranspositionCipher(sigma, n) with sigma a function over [0, n) and
\* the block size n succeeds and makes the cipher that the list
\* [sigma(0), ..., sigma(n-1)] makes.
C20_FunctionSigma ==
    (call.op = "TranspositionCipher" /\ message.sigma.t = "function"
        /\ message.n = Len(message.sigma.v))
        => /\ call.ret.exc = ""
           /\ heap = <<TranspositionCipher(PyList(message.sigma.v), message.n).val>>

\* the objects the object k refers to: its cached decryption object and, for
\* a CompoundCipher, its sub-ciphers
References(k) ==
    (IF heap[k].decryption_object = 0 THEN {} ELSE {heap[k].decryption_object})
    \cup (IF heap[k].cls = "CompoundCipher"
          THEN {heap[k].ciphers[j] : j \in DOMAIN heap[k].ciphers} ELSE {})

\* C21: the decryption object cached in a cipher instance is referenced by
\* that instance only: no other object, a compound cipher's decryption object
\* included, refers to it.
C21_ExclusiveOwnership ==
    \A i \in Objects :
        heap[i].decryption_object # 0
            => \A k \in Objects \ {i} : heap[i].decryption_object \notin References(k)

\* d is the inverse of e modulo phi in [0, phi)
IsInverse(d, e, phi) == d >= 0 /\ d < phi /\ (e * d) % phi = 1

\* C22: for e >= 1 and phi >= 2 with gcd(e, phi) = 1, calculate_d_slow(e, phi)
\* returns the d in [0, phi) with (e * d) mod phi = 1 and calculate_d(e, phi)
\* returns the same value; when there is no such d, calculate_d_slow
\* returns None.
C22_ModularInverse ==
    /\ (call.op \in {"calculate_d", "calculate_d_slow"}
           /\ message.e >= 1 /\ message.phi >= 2 /\ gcd(message.e, message.phi) = 1)
           => /\ call.ret.exc = "" /\ call.ret.val.t = "int"
              /\ IsInverse(call.ret.val.v, message.e, message.phi)
              /\ call.ret = calculate_d_slow(message.e, message.phi)
              /\ call.ret = calculate_d(message.e, message.phi)
    /\ (call.op = "calculate_d_slow"
           /\ ~(\E d \in 0..(message.phi - 1) : IsInverse(d, message.e, message.phi)))
           => call.ret = Ok(PyNone)

\* calculate_d_slow(13, 2436) returned 937, and 13 * 937 = 5 * 2436 + 1
C22_Witness ==
    /\ call.op = "calculate_d_slow"
    /\ message = DemoExponent
    /\ call.ret = Ok(PyInt(937))
    /\ calculate_d(13, 2436) = Ok(PyInt(937))

\* the blocks of encrypt(plaintext) after postprocessing, before the
\* consolidator joins them
PostprocessedBlocks(h, self, plaintext) ==
    LET o == h[self]
    IN  Bind(Bind(Bind(Bind(
            _preprocess_raw_string(o, o.preprocess_raw_string, plaintext),
            LAMBDA temp : _group_by(o, temp)),
            LAMBDA temp : _process(o, o.preprocess, temp)),
            LAMBDA temp : _encrypt(h, o, temp)),
            LAMBDA temp : _process(o, o.postprocess, temp))

\* C23: every postprocessed block of what an RSA cipher built from its primes
\* encrypts has exactly group_by digits, so the ciphertext has (number of
\* blocks) * group_by digits and grouping it by group_by, as the decryption
\* cipher does, gives the blocks back in order.
C23_BlockAlignment ==
    (Encrypted("RSA") /\ RSAKeyPair(heap[call.self]) /\ LowerSpace(message.v)
        /\ heap[call.self].group_by > 0 /\ call.ret.exc = "")
        => LET blocks == PostprocessedBlocks(heap, call.self, message).val
               g == heap[call.self].group_by
           IN  /\ \A i \in DOMAIN blocks : Len(blocks[i].v) = g
               /\ Len(call.ret.val.v) = Len(blocks) * g
               /\ _group_by(heap[call.self], call.ret.val) = Ok(blocks)

====
